---------------------------- MODULE Spec2Model ----------------------------
(***************************************************************************)
(* A model of XPTParser::parse (src/src-tauri/src/xpt_parser.rs), the      *)
(* hand-written decoder of SAS XPORT Version 5 transport files.            *)
(*                                                                         *)
(* Bytes are the integers 0..255, a buffer is a sequence of bytes, offsets *)
(* are 0-based as in the source (byte k of a buffer d is d[k + 1]).  A     *)
(* Rust String is the sequence of its code points.  Option<T> is a         *)
(* sequence of length at most one: None is << >>, Some(x) is << x >>.      *)
(* parse is a pure function; it is modelled as the sequence of its stages, *)
(* one action per stage, each stage either ending the call with a failure  *)
(* or handing its results to the next one.                                 *)
(***************************************************************************)
EXTENDS Integers, Sequences, FiniteSets

---------------------------------------------------------------------------
(* constants (mod constants, lines 4-13) *)

RECORD_SIZE == 80
NAME_STRING_RECORD_LENGTH == 140
MIN_NUMERIC_LENGTH == 8
MIN_CHARACTER_LENGTH == 1

(* b"HEADER RECORD*******NAMESTR HEADER RECORD!!!!!!!" *)
namestr_header ==
  <<72, 69, 65, 68, 69, 82, 32, 82, 69, 67, 79, 82, 68, 42, 42, 42, 42, 42,
    42, 42, 78, 65, 77, 69, 83, 84, 82, 32, 72, 69, 65, 68, 69, 82, 32, 82,
    69, 67, 79, 82, 68, 33, 33, 33, 33, 33, 33, 33>>

(* b"HEADER RECORD*******OBS     HEADER RECORD!!!!!!!" *)
obs_header ==
  <<72, 69, 65, 68, 69, 82, 32, 82, 69, 67, 79, 82, 68, 42, 42, 42, 42, 42,
    42, 42, 79, 66, 83, 32, 32, 32, 32, 32, 72, 69, 65, 68, 69, 82, 32, 82,
    69, 67, 79, 82, 68, 33, 33, 33, 33, 33, 33, 33>>

(* b"MEMBER  NAME" *)
member_marker == <<77, 69, 77, 66, 69, 82, 32, 32, 78, 65, 77, 69>>

(* b"DATECREATED" and b"DATEMODIFIED" *)
date_created_marker == <<68, 65, 84, 69, 67, 82, 69, 65, 84, 69, 68>>
date_modified_marker == <<68, 65, 84, 69, 77, 79, 68, 73, 70, 73, 69, 68>>

(* "XPT Dataset" *)
default_title == <<88, 80, 84, 32, 68, 97, 116, 97, 115, 101, 116>>

(* the prefix "VAR" of a synthesized variable name *)
var_prefix == <<86, 65, 82>>

(* the failures of parse, by the message the source gives each *)
TooSmall == "File too small to be a valid XPT file"
HeaderNotFoundNamestr == "NAMESTR header not found"
HeaderNotFoundObs == "OBS header not found"
InvalidHeaderRange == "Invalid header positions"
EmptyMetadataBlock == "Name string block too small"
NoVariableMetadata == "The file does not include variable metadata"
DescriptorParseFailure == "Variable descriptors could not be parsed"
ZeroStorageWidth == "Variables have zero length"
UnresolvableRowWidth == "Unable to determine observation width"
ObservationTooSmall == "Observation data too small"

(* the other ways a call stands: still running, returned Ok(dataset), or   *)
(* ended by a panic (a slice whose range is outside the buffer)            *)
Running == "running"
Ok == "Ok"
Panic == "panic: range start index out of range for slice"

TypedFailures ==
  {TooSmall, HeaderNotFoundNamestr, HeaderNotFoundObs, InvalidHeaderRange,
   EmptyMetadataBlock, NoVariableMetadata, DescriptorParseFailure,
   ZeroStorageWidth, UnresolvableRowWidth, ObservationTooSmall}

Numeric == "Numeric"
Character == "Character"

None == << >>
Some(x) == << x >>

---------------------------------------------------------------------------
(* slices and helpers *)

(* &d[from..to], 0-based, to exclusive *)
Slice(d, from, to) == SubSeq(d, from + 1, to)

Max(a, b) == IF a >= b THEN a ELSE b
Min(a, b) == IF a <= b THEN a ELSE b

(* find_bytes: data.windows(pattern.len()).position(|w| w == pattern), the *)
(* offset of the first window equal to the pattern                         *)
WindowEquals(d, p, i) == \A k \in 1..Len(p) : d[i + k] = p[k]

find_bytes(d, p) ==
  LET hits == { i \in 0..(Len(d) - Len(p)) : WindowEquals(d, p, i) }
  IN IF hits = {} THEN None
     ELSE Some(CHOOSE i \in hits : \A j \in hits : i <= j)

(* mutant: a boundary offset is advanced by a whole record too *)
align_to_record_boundary_AlwaysAdvance(index) ==
  index + (RECORD_SIZE - (index % RECORD_SIZE))

align_to_record_boundary(index) ==
  LET remainder == index % RECORD_SIZE
  IN IF remainder = 0 THEN index ELSE index + (RECORD_SIZE - remainder)

(* char::is_whitespace on a code point *)
IsWhitespace(c) ==
  \/ c \in 9..13
  \/ c \in {32, 133, 160, 5760, 8232, 8233, 8239, 8287, 12288}
  \/ c \in 8192..8202

(* String::from_utf8_lossy.  The buffers of this model hold ASCII bytes    *)
(* and the byte 0xFF, which is never part of a valid UTF-8 sequence: each  *)
(* such byte becomes U+FFFD.  String::from_utf8 succeeds exactly when no   *)
(* such byte is present.                                                   *)
from_utf8_lossy(bytes) ==
  [k \in 1..Len(bytes) |-> IF bytes[k] < 128 THEN bytes[k] ELSE 65533]

from_utf8_ok(bytes) == \A k \in 1..Len(bytes) : bytes[k] < 128

(* trim_end_matches(|c| c.is_whitespace() || c == '\0') *)
RECURSIVE TrimEndWsNul(_)
TrimEndWsNul(s) ==
  IF s = << >> THEN s
  ELSE IF IsWhitespace(s[Len(s)]) \/ s[Len(s)] = 0
       THEN TrimEndWsNul(SubSeq(s, 1, Len(s) - 1))
       ELSE s

(* str::trim: whitespace off both ends *)
RECURSIVE TrimEnd(_)
TrimEnd(s) ==
  IF s = << >> THEN s
  ELSE IF IsWhitespace(s[Len(s)]) THEN TrimEnd(SubSeq(s, 1, Len(s) - 1))
  ELSE s

RECURSIVE TrimStart(_)
TrimStart(s) ==
  IF s = << >> THEN s
  ELSE IF IsWhitespace(s[1]) THEN TrimStart(Tail(s))
  ELSE s

Trim(s) == TrimStart(TrimEnd(s))

ascii_string(d, offset, length) ==
  IF offset >= Len(d) \/ offset + length > Len(d) THEN << >>
  ELSE TrimEndWsNul(from_utf8_lossy(Slice(d, offset, offset + length)))

ascii_string_trimmed(d) == TrimEndWsNul(from_utf8_lossy(d))

(* u16::from_be_bytes([hi, lo]) *)
u16_from_be_bytes(hi, lo) == hi * 256 + lo

(* format!("{}", n) for an unsigned n: its decimal digits *)
RECURSIVE Decimal(_)
Decimal(n) ==
  IF n < 10 THEN << 48 + n >> ELSE Decimal(n \div 10) \o << 48 + (n % 10) >>

---------------------------------------------------------------------------
(* parse_name_string (lines 265-285): one 140-byte descriptor record *)

(* mutant: a slice of exactly one record length is refused *)
parse_name_string_RefusesExactLength(d) ==
  IF Len(d) <= NAME_STRING_RECORD_LENGTH THEN None
  ELSE Some([var_type |-> u16_from_be_bytes(d[1], d[2]),
             length   |-> u16_from_be_bytes(d[5], d[6]),
             position |-> u16_from_be_bytes(d[7], d[8]),
             name     |-> ascii_string(d, 8, 8),
             label    |-> ascii_string(d, 16, 40),
             format   |-> ascii_string(d, 56, 8)])

parse_name_string(d) ==
  IF Len(d) < NAME_STRING_RECORD_LENGTH THEN None
  ELSE Some([var_type |-> u16_from_be_bytes(d[1], d[2]),
             length   |-> u16_from_be_bytes(d[5], d[6]),
             position |-> u16_from_be_bytes(d[7], d[8]),
             name     |-> ascii_string(d, 8, 8),
             label    |-> ascii_string(d, 16, 40),
             format   |-> ascii_string(d, 56, 8)])

---------------------------------------------------------------------------
(* parse_numeric_value (lines 306-364) *)

(* The 56-bit fraction is kept as its seven base-256 digits, most          *)
(* significant first (TLC's integers are 32 bits wide): the source's       *)
(* fraction = (fraction << 8) | byte appends one digit.                    *)
RECURSIVE FractionOf(_, _)
FractionOf(bytes, k) ==
  IF k = 1 THEN << >> ELSE Append(FractionOf(bytes, k - 1), bytes[k])

FractionIsZero(fraction) == \A k \in 1..Len(fraction) : fraction[k] = 0

(* Lines 340-363: the decimal rendering of                                 *)
(* sign * (fraction / 2^56) * 16^exponent.  It is kept symbolic, as the    *)
(* marker -1 (no code point) followed by the sign, the exponent and the    *)
(* fraction digits it is computed from.                                    *)
IbmDecimal(sign, exponent, fraction) ==
  << -1, IF sign THEN 1 ELSE 0, exponent >> \o fraction

(* mutant: the zero fraction is looked at before the missing marker *)
parse_numeric_value_ZeroFractionFirst(d) ==
  IF Len(d) < 8 THEN << >>
  ELSE LET bytes == Slice(d, 0, 8)
           sign == (bytes[1] \div 128) % 2 = 1
           exponent == (bytes[1] % 128) - 64
           fraction == FractionOf(bytes, 8)
       IN IF \A k \in 1..8 : bytes[k] = 0 THEN << 48 >>
          ELSE IF FractionIsZero(fraction)
               THEN (IF sign THEN << 45, 48 >> ELSE << 48 >>)
          ELSE IF bytes[1] = 46 THEN << >>
          ELSE IbmDecimal(sign, exponent, fraction)

parse_numeric_value(d) ==
  IF Len(d) < 8 THEN << >>
  ELSE LET bytes == Slice(d, 0, 8)
           sign == (bytes[1] \div 128) % 2 = 1
           exponent == (bytes[1] % 128) - 64
           fraction == FractionOf(bytes, 8)
       IN IF \A k \in 1..8 : bytes[k] = 0 THEN << 48 >>
          ELSE IF bytes[1] = 46 THEN << >>
          ELSE IF FractionIsZero(fraction)
               THEN (IF sign THEN << 45, 48 >> ELSE << 48 >>)
          ELSE IbmDecimal(sign, exponent, fraction)

(* parse_cell (lines 288-297) *)
parse_cell(d, variable) ==
  IF variable.var_type = Character THEN ascii_string_trimmed(d)
  ELSE parse_numeric_value(d)

---------------------------------------------------------------------------
(* infer_dataset_title (lines 367-393) and infer_date (lines 396-408) *)

IsTitleSeparator(c) == c = 32 \/ c = 0

(* text.split(sep).filter(non-empty).first(): None when there is no token  *)
RECURSIVE TokenEnd(_, _)
TokenEnd(text, k) ==
  IF k > Len(text) \/ IsTitleSeparator(text[k]) THEN k ELSE TokenEnd(text, k + 1)

RECURSIVE FirstComponent(_, _)
FirstComponent(text, k) ==
  IF k > Len(text) THEN None
  ELSE IF IsTitleSeparator(text[k]) THEN FirstComponent(text, k + 1)
  ELSE Some(SubSeq(text, k, TokenEnd(text, k) - 1))

(* Path::new(s).file_name(): the last component when it is a normal one.   *)
(* Separators are '/' (47); empty segments and "." segments are no         *)
(* components; a last component ".." has no file name.                     *)
RECURSIVE LastSegment(_, _, _)
LastSegment(s, k, acc) ==
  (* scans right to left; acc is the segment being collected *)
  IF k = 0 THEN acc
  ELSE IF s[k] = 47
       THEN (IF acc = << >> \/ acc = << 46 >>
             THEN LastSegment(s, k - 1, << >>)
             ELSE acc)
       ELSE LastSegment(s, k - 1, << s[k] >> \o acc)

file_name(s) ==
  LET seg == LastSegment(s, Len(s), << >>)
  IN IF seg = << >> \/ seg = << 46 >> \/ seg = << 46, 46 >> THEN None
     ELSE Some(seg)

(* the offset (1-based) of the last '.', 0 when there is none *)
RECURSIVE LastDot(_, _)
LastDot(s, k) ==
  IF k = 0 THEN 0 ELSE IF s[k] = 46 THEN k ELSE LastDot(s, k - 1)

(* Path::file_stem: the file name up to its last '.', the whole name when  *)
(* it has no '.' or only a leading one                                     *)
file_stem(s) ==
  LET name == file_name(s)
  IN IF name = None THEN None
     ELSE LET dot == LastDot(name[1], Len(name[1]))
          IN IF dot <= 1 THEN name ELSE Some(SubSeq(name[1], 1, dot - 1))

TitleFallback(fallback) ==
  IF fallback # None /\ file_stem(fallback[1]) # None
  THEN file_stem(fallback[1])[1]
  ELSE default_title

infer_dataset_title(d, fallback) ==
  LET found == find_bytes(d, member_marker)
  IN IF found = None THEN TitleFallback(fallback)
     ELSE LET start == found[1] + Len(member_marker)
              limit == Min(start + 80, Len(d))
              bytes == Slice(d, start, limit)
              first == FirstComponent(bytes, 1)
          IN IF from_utf8_ok(bytes) /\ first # None
             THEN Trim(first[1])
             ELSE TitleFallback(fallback)

infer_date(d, marker) ==
  LET found == find_bytes(d, marker)
  IN IF found = None THEN None
     ELSE LET start == found[1] + Len(marker)
              limit == Min(start + 32, Len(d))
              bytes == Slice(d, start, limit)
          IN IF from_utf8_ok(bytes) /\ Trim(bytes) # << >>
             THEN Some(Trim(bytes))
             ELSE None

---------------------------------------------------------------------------
(* the descriptor records of the block (lines 96-112) *)

(* for i in 0..record_count: the records that parse, in block order *)
RECURSIVE ParseRecords(_, _, _)
ParseRecords(block, record_count, i) ==
  IF i >= record_count THEN << >>
  ELSE LET start == i * NAME_STRING_RECORD_LENGTH
           end == start + NAME_STRING_RECORD_LENGTH
           record == IF end <= Len(block)
                     THEN parse_name_string(Slice(block, start, end))
                     ELSE None
       IN record \o ParseRecords(block, record_count, i + 1)

---------------------------------------------------------------------------
(* the variable orderer (lines 122-173) *)

(* name_records.into_iter().enumerate(): each record with its 0-based index *)
Enumerate(records) ==
  [k \in 1..Len(records) |-> [idx |-> k - 1, rec |-> records[k]]]

(* mutant: the declared position is the key even when it is zero *)
SortOrder_DeclaredOnly(e) == e.rec.position

(* lhs_order / rhs_order of the comparator (lines 128-137) *)
SortOrder(e) == IF e.rec.position > 0 THEN e.rec.position ELSE e.idx + 1

(* the comparator: lhs_order.cmp(&rhs_order).then_with(|| lhs_idx.cmp(rhs_idx)) *)
Compare(lhs, rhs) ==
  IF SortOrder(lhs) < SortOrder(rhs) THEN "Less"
  ELSE IF SortOrder(lhs) > SortOrder(rhs) THEN "Greater"
  ELSE IF lhs.idx < rhs.idx THEN "Less"
  ELSE IF lhs.idx > rhs.idx THEN "Greater"
  ELSE "Equal"

(* slice::sort_by is a stable sort: an element is placed after every       *)
(* earlier element that does not compare Greater than it                   *)
RECURSIVE InsertSorted(_, _)
InsertSorted(sorted, e) ==
  IF sorted = << >> THEN << e >>
  ELSE IF Compare(sorted[Len(sorted)], e) = "Greater"
       THEN Append(InsertSorted(SubSeq(sorted, 1, Len(sorted) - 1), e),
                   sorted[Len(sorted)])
       ELSE Append(sorted, e)

RECURSIVE sort_by(_)
sort_by(entries) ==
  IF entries = << >> THEN << >>
  ELSE InsertSorted(sort_by(SubSeq(entries, 1, Len(entries) - 1)),
                    entries[Len(entries)])

(* mutant: min for max *)
ClampLength_Min(length, minimum) == Min(length, minimum)

(* record.length.max(minimum as u16) as usize *)
ClampLength(length, minimum) == Max(length, minimum)

(* the closure of lines 144-172; index is the 0-based place after the sort *)
MakeVariable(index, record) ==
  LET base_name == IF record.name = << >>
                   THEN var_prefix \o Decimal(index + 1)
                   ELSE record.name
      label == IF record.label = << >> THEN base_name ELSE record.label
      var_type == IF record.var_type = 1 THEN Numeric ELSE Character
      length == IF var_type = Numeric
                THEN ClampLength(record.length, MIN_NUMERIC_LENGTH)
                ELSE ClampLength(record.length, MIN_CHARACTER_LENGTH)
  IN [name |-> base_name, label |-> label, var_type |-> var_type,
      length |-> length]

MakeVariables(ordered) ==
  [k \in 1..Len(ordered) |-> MakeVariable(k - 1, ordered[k].rec)]

(* variables.iter().map(|v| v.length).sum() *)
RECURSIVE SumLengths(_, _)
SumLengths(vars, k) ==
  IF k = 0 THEN 0 ELSE SumLengths(vars, k - 1) + vars[k].length

---------------------------------------------------------------------------
(* the row layout resolver (lines 185-215) *)

(* ((storage_width as f64 / 8.0).ceil() as usize) * 8; the widths of this  *)
(* model are far below 2^53, where the f64 arithmetic is exact             *)
RoundedWidth(width) == ((width + 7) \div 8) * 8

row_width_candidates(width) == << width, RoundedWidth(width) >>

(* mutant: only the space is filler *)
IsFiller_SpaceOnly(b) == b = 32

IsFiller(b) == b = 0 \/ b = 32

(* mutant: the trailing filler is accepted but not cut off *)
TryCandidate_NoTruncate(raw, candidate) ==
  LET remainder == Len(raw) % candidate
      filler_start == Len(raw) - remainder
  IN IF remainder = 0
     THEN Some([row_width |-> candidate, observation_len |-> Len(raw)])
     ELSE IF \A k \in (filler_start + 1)..Len(raw) : raw[k] = 0 \/ raw[k] = 32
          THEN Some([row_width |-> candidate, observation_len |-> Len(raw)])
          ELSE None

(* one turn of the loop of lines 195-212 on a candidate: None when the     *)
(* loop goes on, else the resolved width and the length observation_bytes  *)
(* is left with                                                            *)
TryCandidate(raw, candidate) ==
  LET remainder == Len(raw) % candidate
      filler_start == Len(raw) - remainder
  IN IF remainder = 0
     THEN Some([row_width |-> candidate, observation_len |-> Len(raw)])
     ELSE IF \A k \in (filler_start + 1)..Len(raw) : IsFiller(raw[k])
          THEN Some([row_width |-> candidate, observation_len |-> filler_start])
          ELSE None

RECURSIVE ResolveRowWidth(_, _, _)
ResolveRowWidth(raw, candidates, k) ==
  IF k > Len(candidates) THEN None
  ELSE IF TryCandidate(raw, candidates[k]) # None
       THEN TryCandidate(raw, candidates[k])
       ELSE ResolveRowWidth(raw, candidates, k + 1)

---------------------------------------------------------------------------
(* the cell decoder (lines 220-253) *)

(* mutant: the offset is not advanced past a decoded cell *)
RECURSIVE DecodeCells_NoAdvance(_, _, _, _)
DecodeCells_NoAdvance(row_data, vars, k, offset) ==
  IF k > Len(vars) THEN << >>
  ELSE IF offset + vars[k].length > Len(row_data) THEN << >>
  ELSE << parse_cell(Slice(row_data, offset, offset + vars[k].length), vars[k]) >>
       \o DecodeCells_NoAdvance(row_data, vars, k + 1, offset)

(* the loop of lines 234-242 over the variables from the k-th on *)
RECURSIVE DecodeCells(_, _, _, _)
DecodeCells(row_data, vars, k, offset) ==
  IF k > Len(vars) THEN << >>
  ELSE IF offset + vars[k].length > Len(row_data) THEN << >>
  ELSE << parse_cell(Slice(row_data, offset, offset + vars[k].length), vars[k]) >>
       \o DecodeCells(row_data, vars, k + 1, offset + vars[k].length)

(* mutant: the rows are counted from one *)
RowStart_FromOne(row_idx, width) == (row_idx + 1) * width

(* where row row_idx starts in observation_bytes (line 224) *)
RowStart(row_idx, width) == row_idx * width

(* the loop of lines 223-253 from row row_idx on *)
RECURSIVE DecodeRows(_, _, _, _, _, _)
DecodeRows(obs, vars, width, storage, observation_count, row_idx) ==
  IF row_idx >= observation_count THEN << >>
  ELSE LET row_start == RowStart(row_idx, width)
           row_end == row_start + storage
       IN IF row_end > Len(obs) THEN << >>
          ELSE LET row_values ==
                     DecodeCells(Slice(obs, row_start, row_end), vars, 1, 0)
                   row == IF Len(row_values) = Len(vars)
                          THEN << [values |-> row_values] >>
                          ELSE << >>
               IN row \o DecodeRows(obs, vars, width, storage,
                                    observation_count, row_idx + 1)

---------------------------------------------------------------------------
(* the state of one call of XPTParser::parse(data, suggested_filename) *)

VARIABLES
  data,                  \* the input buffer
  suggested_filename,    \* Option<&str>
  pc,                    \* the stage the call is at
  outcome,               \* Running, Ok, a typed failure, or Panic
  namestr_header_pos,    \* Option<usize>
  obs_header_pos,        \* Option<usize>
  name_str_block_start,
  name_str_block_end,
  name_records,          \* Vec<NameStringRecord>
  dataset_title,
  created_date,
  modified_date,
  ordered_records,       \* Vec<(usize, NameStringRecord)>, after sort_by
  variables,             \* Vec<XPTVariable>
  obs_data_start,
  storage_width,
  resolved_row_width,    \* Option<usize>
  observation_len,       \* observation_bytes is the first observation_len
                         \* bytes of raw_observation_bytes
  rows                   \* Vec<XPTRow>

vars ==
  << data, suggested_filename, pc, outcome, namestr_header_pos,
     obs_header_pos, name_str_block_start, name_str_block_end, name_records,
     dataset_title, created_date, modified_date, ordered_records, variables,
     obs_data_start, storage_width, resolved_row_width, observation_len,
     rows >>

headerVars ==
  << namestr_header_pos, obs_header_pos, name_str_block_start,
     name_str_block_end >>
metadataVars == << dataset_title, created_date, modified_date >>
orderVars == << ordered_records, variables >>
layoutVars ==
  << obs_data_start, storage_width, resolved_row_width, observation_len >>

(* return Err(anyhow!(e)) *)
Fail(e) == outcome' = e /\ pc' = "done"
Goto(stage) == outcome' = outcome /\ pc' = stage

(* whether &d[from..to] is in range *)
SliceInRange(d, from, to) == from <= to /\ to <= Len(d)

(* &data[obs_data_start..] and the prefix of it that observation_bytes is *)
raw_observation_bytes == Slice(data, obs_data_start, Len(data))
observation_bytes == SubSeq(raw_observation_bytes, 1, observation_len)

---------------------------------------------------------------------------
(* the stages of parse *)

(* lines 69-71 *)
CheckSize ==
  /\ pc = "start"
  /\ IF Len(data) < RECORD_SIZE THEN Fail(TooSmall) ELSE Goto("locate")
  /\ UNCHANGED << data, suggested_filename, headerVars, name_records,
                  metadataVars, orderVars, layoutVars, rows >>

(* lines 73-90: the header locator *)
LocateHeaders ==
  /\ pc = "locate"
  /\ LET namestr == find_bytes(data, namestr_header)
         obs == find_bytes(data, obs_header)
         block_start ==
           align_to_record_boundary(namestr[1] + Len(namestr_header))
     IN IF namestr = None
        THEN /\ Fail(HeaderNotFoundNamestr)
             /\ UNCHANGED headerVars
        ELSE IF obs = None
        THEN /\ Fail(HeaderNotFoundObs)
             /\ namestr_header_pos' = namestr
             /\ UNCHANGED << obs_header_pos, name_str_block_start,
                             name_str_block_end >>
        ELSE /\ namestr_header_pos' = namestr
             /\ obs_header_pos' = obs
             /\ name_str_block_start' = block_start
             /\ name_str_block_end' = obs[1]
             /\ IF obs[1] <= block_start THEN Fail(InvalidHeaderRange)
                ELSE IF ~SliceInRange(data, block_start, obs[1]) THEN Fail(Panic)
                ELSE Goto("descriptors")
  /\ UNCHANGED << data, suggested_filename, name_records, metadataVars,
                  orderVars, layoutVars, rows >>

(* &data[name_str_block_start..name_str_block_end] *)
name_string_block == Slice(data, name_str_block_start, name_str_block_end)

(* lines 92-116: the variable descriptor parser *)
ParseDescriptors ==
  /\ pc = "descriptors"
  /\ LET record_count == Len(name_string_block) \div NAME_STRING_RECORD_LENGTH
         records == ParseRecords(name_string_block, record_count, 0)
     IN IF Len(name_string_block) < NAME_STRING_RECORD_LENGTH
        THEN Fail(EmptyMetadataBlock) /\ UNCHANGED name_records
        ELSE IF record_count = 0
        THEN Fail(NoVariableMetadata) /\ UNCHANGED name_records
        ELSE /\ name_records' = records
             /\ IF records = << >> THEN Fail(DescriptorParseFailure)
                ELSE Goto("metadata")
  /\ UNCHANGED << data, suggested_filename, headerVars, metadataVars,
                  orderVars, layoutVars, rows >>

(* lines 118-120: the metadata inferencer *)
InferMetadata ==
  /\ pc = "metadata"
  /\ dataset_title' = infer_dataset_title(data, suggested_filename)
  /\ created_date' = infer_date(data, date_created_marker)
  /\ modified_date' = infer_date(data, date_modified_marker)
  /\ Goto("order")
  /\ UNCHANGED << data, suggested_filename, headerVars, name_records,
                  orderVars, layoutVars, rows >>

(* lines 122-173: the variable orderer *)
OrderVariables ==
  /\ pc = "order"
  /\ ordered_records' = sort_by(Enumerate(name_records))
  /\ variables' = MakeVariables(ordered_records')
  /\ Goto("layout")
  /\ UNCHANGED << data, suggested_filename, headerVars, name_records,
                  metadataVars, layoutVars, rows >>

(* lines 175-218: the row layout resolver *)
ResolveLayout ==
  /\ pc = "layout"
  /\ LET start == align_to_record_boundary(obs_header_pos[1] + Len(obs_header))
         raw == Slice(data, start, Len(data))
         width == SumLengths(variables, Len(variables))
         resolved == ResolveRowWidth(raw, row_width_candidates(width), 1)
     IN /\ obs_data_start' = start
        /\ IF ~SliceInRange(data, start, Len(data))
           THEN /\ Fail(Panic)
                /\ UNCHANGED << storage_width, resolved_row_width,
                                observation_len >>
           ELSE /\ storage_width' = width
                /\ IF width = 0
                   THEN /\ Fail(ZeroStorageWidth)
                        /\ UNCHANGED << resolved_row_width, observation_len >>
                   ELSE IF resolved = None
                   THEN /\ Fail(UnresolvableRowWidth)
                        /\ resolved_row_width' = None
                        /\ observation_len' = Len(raw)
                   ELSE /\ resolved_row_width' = Some(resolved[1].row_width)
                        /\ observation_len' = resolved[1].observation_len
                        /\ IF resolved[1].observation_len < resolved[1].row_width
                           THEN Fail(ObservationTooSmall)
                           ELSE Goto("rows")
  /\ UNCHANGED << data, suggested_filename, headerVars, name_records,
                  metadataVars, orderVars, rows >>

(* lines 220-261: the cell decoder, and the Ok(XPTDataset { .. }) returned *)
DecodeObservations ==
  /\ pc = "rows"
  /\ LET row_width == resolved_row_width[1]
         observation_count == Len(observation_bytes) \div row_width
     IN rows' = DecodeRows(observation_bytes, variables, row_width,
                           storage_width, observation_count, 0)
  /\ outcome' = Ok
  /\ pc' = "done"
  /\ UNCHANGED << data, suggested_filename, headerVars, name_records,
                  metadataVars, orderVars, layoutVars >>

---------------------------------------------------------------------------
(* the inputs: transport files and malformed buffers, built byte by byte *)

MaxVars == 3       \* descriptor records in the files of the ordering family
MaxPosition == 3   \* largest declared position in the ordering family
MaxRows == 4       \* full rows in the files of the layout family

Pad(n, b) == [k \in 1..n |-> b]
PadTo(seq, n, b) == seq \o Pad(n - Len(seq), b)

RECURSIVE Concat(_)
Concat(seqs) == IF seqs = << >> THEN << >> ELSE Head(seqs) \o Concat(Tail(seqs))

RECURSIVE Repeat(_, _)
Repeat(seq, n) == IF n = 0 THEN << >> ELSE seq \o Repeat(seq, n - 1)

(* an 80-byte header record: the marker, then ASCII zeros *)
HeaderRecord(marker) == PadTo(marker, RECORD_SIZE, 48)

(* a buffer padded with spaces to the next record boundary *)
PadToRecord(seq) == PadTo(seq, align_to_record_boundary(Len(seq)), 32)

U16(n) == << n \div 256, n % 256 >>

(* a 140-byte NAMESTR record: type, (hash), length, position, name[8],     *)
(* label[40], format[8], the rest zero                                     *)
Descriptor(var_type, length, position, name, label) ==
  PadTo(U16(var_type) \o << 0, 0 >> \o U16(length) \o U16(position)
          \o PadTo(name, 8, 32) \o PadTo(label, 40, 32) \o Pad(8, 32),
        NAME_STRING_RECORD_LENGTH, 0)

TransportFile(prefix, descriptors, obs) ==
  prefix \o HeaderRecord(namestr_header) \o PadToRecord(Concat(descriptors))
         \o HeaderRecord(obs_header) \o obs

Input(d, hint) == [data |-> d, hint |-> hint]

(* a one-byte character variable named by one letter *)
CharVar(position, letter) == Descriptor(2, 1, position, << letter >>, << >>)

(* -- titles and filename hints -- *)
Hints ==
  { None,
    Some(<<47, 116, 109, 112, 47, 102, 111, 111, 46, 120, 112, 116>>), \* /tmp/foo.xpt
    Some(<< >>),                  \* the empty string
    Some(<<47>>),                 \* /
    Some(<<46, 120, 112, 116>>),  \* .xpt
    Some(<<97, 47, 46, 46>>),     \* a/..
    Some(<<97, 46, 98, 47>>),     \* a.b/
    Some(<<120, 47, 46>>) }       \* x/.

TitleFields ==
  { <<77, 89, 68, 65, 84, 65, 32, 32, 88>>,  \* "MYDATA  X"
    << >>,                                   \* spaces up to the next record
    <<9, 32, 88>>,                           \* tab, space, X
    <<32, 10, 0, 88>>,                       \* space, newline, NUL, X
    <<9, 88, 32>>,                           \* tab, X, space
    <<0, 0, 77, 0>>,                         \* NUL, NUL, M, NUL
    <<255, 32, 88>> }                        \* not UTF-8

DateRecord ==
  PadTo(date_created_marker \o <<32, 49, 53, 32>> \o date_modified_marker,
        RECORD_SIZE, 32)

Prefixes ==
  { << >>, DateRecord }
    \cup { PadTo(member_marker \o t, RECORD_SIZE, 32) : t \in TitleFields }

TitleInputs ==
  { Input(TransportFile(pre, << CharVar(1, 65) >>, <<65, 66>>), h) :
      pre \in Prefixes, h \in Hints }
  \cup
  { Input(TransportFile(<< >>, << CharVar(1, 65) >>, member_marker \o t), h) :
      t \in { << >>, <<32, 0>> }, h \in Hints }

(* -- declared positions -- *)
PositionLists == UNION { [1..n -> 0..MaxPosition] : n \in 1..MaxVars }

OrderInputs ==
  { Input(TransportFile(<< >>,
                        [k \in 1..Len(pl) |-> CharVar(pl[k], 64 + k)],
                        Repeat([k \in 1..Len(pl) |-> 96 + k], 2)),
          None) : pl \in PositionLists }

(* -- names, labels, types and declared lengths -- *)
NameFields == { << >>, <<88>>, <<32, 88>>, <<0>> }
LabelFields == { << >>, <<76>> }
DeclaredTypes == { 0, 1, 2 }
DeclaredLengths == { 0, 1, 7, 8, 9 }

(* the width such a record's column ends up with *)
ColumnWidth(var_type, length) ==
  IF var_type = 1 THEN (IF length < 8 THEN 8 ELSE length)
  ELSE (IF length < 1 THEN 1 ELSE length)

NormalizeInputs ==
  { Input(TransportFile(<< >>, << Descriptor(t, l, 1, n, lb) >>,
                        Pad(2 * ColumnWidth(t, l), 65)),
          None) :
      t \in DeclaredTypes, l \in DeclaredLengths, n \in NameFields,
      lb \in LabelFields }
  \cup
  { Input(TransportFile(<< >>,
                        << Descriptor(2, 0, p1, << >>, << >>),
                           Descriptor(1, 0, p2, << >>, <<76>>) >>,
                        Pad(18, 65)),
          None) : p1 \in 0..2, p2 \in 0..2 }

(* -- observation layouts for a numeric(8) and a character(2) column -- *)
One == <<65, 16, 0, 0, 0, 0, 0, 0>>   \* the IBM encoding of 1
LayoutDescriptors ==
  << Descriptor(1, 8, 1, <<78>>, << >>), Descriptor(2, 2, 2, <<67>>, << >>) >>
RowDatas == { One \o <<65, 66>>, One \o <<32, 32>> }
Strides == { <<10, 32>>, <<16, 32>>, <<16, 0>> }  \* stride and padding byte
Tails ==
  { << >>, <<32>>, <<0, 32>>, <<65>>, <<32, 65>>, <<65, 32>>, Pad(6, 32),
    One, Pad(9, 0) }

LayoutInputs ==
  { Input(TransportFile(<< >>, LayoutDescriptors,
                        Repeat(PadTo(rd, st[1], st[2]), n) \o tl),
          None) :
      rd \in RowDatas, st \in Strides, n \in 0..MaxRows, tl \in Tails }

(* -- numeric cells -- *)
FirstBytes == { 0, 46, 65, 128, 174, 193 }
FractionBytes ==
  { Pad(7, 0), <<16, 0, 0, 0, 0, 0, 0>>, <<0, 0, 0, 0, 0, 0, 1>>,
    <<0, 0, 0, 32, 0, 0, 0>>, Pad(7, 32) }

NumericInputs ==
  { Input(TransportFile(<< >>, << Descriptor(1, 8 + Len(extra), 1, <<78>>, << >>) >>,
                        << b0 >> \o fr \o extra),
          None) :
      b0 \in FirstBytes, fr \in FractionBytes, extra \in { << >>, <<0>>, <<7>> } }

(* -- header arrangements -- *)
HeaderInputs ==
  { Input(Pad(k, 32), None) : k \in { 0, 79, 80 } }
  \cup
  { Input(HeaderRecord(obs_header), None),
    Input(HeaderRecord(namestr_header) \o Pad(140, 32), None),
    Input(HeaderRecord(obs_header) \o HeaderRecord(namestr_header)
            \o Pad(160, 32), None),
    Input(HeaderRecord(namestr_header)
            \o TransportFile(<< >>, << CharVar(1, 65) >>, <<65, 66>>), None) }
  \cup
  { Input(Pad(o, 32) \o namestr_header \o Pad(g, 32) \o obs_header \o Pad(t, 65),
          None) :
      o \in { 0, 1, 32, 33, 80 },
      g \in { 0, 31, 32, 33, 171, 172, 173, 312 },
      t \in { 0, 31, 32, 33 } }
  \cup
  { Input(HeaderRecord(namestr_header) \o PadToRecord(CharVar(1, 65))
            \o obs_header \o Pad(t, 48), None) : t \in { 0, 31, 32, 34 } }

Inputs ==
  TitleInputs \cup OrderInputs \cup NormalizeInputs \cup LayoutInputs
    \cup NumericInputs \cup HeaderInputs

---------------------------------------------------------------------------
(* the specification *)

Init ==
  /\ \E in \in Inputs : data = in.data /\ suggested_filename = in.hint
  /\ pc = "start"
  /\ outcome = Running
  /\ namestr_header_pos = None
  /\ obs_header_pos = None
  /\ name_str_block_start = 0
  /\ name_str_block_end = 0
  /\ name_records = << >>
  /\ dataset_title = << >>
  /\ created_date = None
  /\ modified_date = None
  /\ ordered_records = << >>
  /\ variables = << >>
  /\ obs_data_start = 0
  /\ storage_width = 0
  /\ resolved_row_width = None
  /\ observation_len = 0
  /\ rows = << >>

Next ==
  \/ CheckSize
  \/ LocateHeaders
  \/ ParseDescriptors
  \/ InferMetadata
  \/ OrderVariables
  \/ ResolveLayout
  \/ DecodeObservations

Spec == Init /\ [][Next]_vars

---------------------------------------------------------------------------
(* what the properties below speak of *)

Returned == pc = "done" /\ outcome = Ok

(* the row layout resolver ran: storage_width is set by it alone *)
LayoutRan == pc \in { "rows", "done" } /\ storage_width > 0

(* the last n bytes of a buffer *)
LastBytes(d, n) == SubSeq(d, Len(d) - n + 1, Len(d))
OnlyFiller(d) == \A k \in 1..Len(d) : d[k] \in { 0, 32 }

(* the cell of variable i in row r (both 1-based) of the resolved layout:  *)
(* rows are resolved_row_width apart, the cell starts after the lengths of *)
(* the variables before it                                                 *)
CellBytes(r, i) ==
  LET first == (r - 1) * resolved_row_width[1] + SumLengths(variables, i - 1)
  IN SubSeq(observation_bytes, first + 1, first + variables[i].length)

---------------------------------------------------------------------------
(* C1: parse is total: every call ends with a Dataset or with one of the   *)
(* typed failures; no slice it takes is out of range, the observation      *)
(* slice that starts at the aligned end of the OBS marker included.        *)
C1_ParseIsTotal == pc = "done" => outcome \in TypedFailures \cup { Ok }

---------------------------------------------------------------------------
(* C2: in every returned Dataset every row has exactly as many values as   *)
(* there are variables, and values[i] is decoded from the cell of variable *)
(* i; no row with fewer values is emitted.                                 *)
C2_RowsMatchVariables ==
  Returned =>
    \A r \in 1..Len(rows) :
      /\ Len(rows[r].values) = Len(variables)
      /\ \A i \in 1..Len(variables) :
           rows[r].values[i] =
             IF variables[i].var_type = Numeric
             THEN parse_numeric_value(CellBytes(r, i))
             ELSE ascii_string_trimmed(CellBytes(r, i))

(* a dataset of two or more columns and rows whose rows are padded *)
C2_Witness ==
  /\ Returned
  /\ Len(rows) >= 2
  /\ Len(variables) >= 2
  /\ resolved_row_width[1] > storage_width

---------------------------------------------------------------------------
(* the ordering key of an entry, from the record as parsed *)
EffectivePosition(e) ==
  IF name_records[e.idx + 1].position > 0
  THEN name_records[e.idx + 1].position
  ELSE e.idx + 1

(* C3: the returned variables are the parsed descriptor records in stable  *)
(* order of effective position (the declared position if it is greater    *)
(* than zero, the original index + 1 otherwise): a smaller effective       *)
(* position comes first, equal ones keep their original order.             *)
C3_StableOrder ==
  Returned =>
    /\ Len(ordered_records) = Len(name_records)
    /\ Len(variables) = Len(name_records)
    /\ { ordered_records[k].idx : k \in 1..Len(ordered_records) }
         = 0..(Len(name_records) - 1)
    /\ \A k \in 1..Len(ordered_records) :
         /\ ordered_records[k].rec = name_records[ordered_records[k].idx + 1]
         /\ ordered_records[k].rec.name # << >>
              => variables[k].name = ordered_records[k].rec.name
    /\ \A p, q \in 1..Len(ordered_records) :
         p < q =>
           \/ EffectivePosition(ordered_records[p])
                < EffectivePosition(ordered_records[q])
           \/ /\ EffectivePosition(ordered_records[p])
                   = EffectivePosition(ordered_records[q])
              /\ ordered_records[p].idx < ordered_records[q].idx

(* two records of equal effective position, one of them through the        *)
(* fallback, in a dataset whose order is not the block's                   *)
C3_Witness ==
  /\ Returned
  /\ \E p, q \in 1..Len(ordered_records) :
       /\ p < q
       /\ EffectivePosition(ordered_records[p])
            = EffectivePosition(ordered_records[q])
       /\ ordered_records[p].rec.position # ordered_records[q].rec.position
  /\ \E k \in 1..Len(ordered_records) : ordered_records[k].idx # k - 1

---------------------------------------------------------------------------
(* a region of whole strides, each padded with spaces past the width *)
PaddedWithSpaces(raw, width, stride) ==
  /\ Len(raw) > 0
  /\ Len(raw) % stride = 0
  /\ \A k \in 1..Len(raw) : ((k - 1) % stride) >= width => raw[k] = 32

(* C4: when every row of the observation region is padded with spaces up   *)
(* to the storage width rounded up to a multiple of 8, the resolver        *)
(* returns the rounded stride: storage_width = 10 and a region of 64 bytes *)
(* in which the last 6 bytes of every 16-byte block are spaces resolve to  *)
(* the stride 16 and 4 rows.                                               *)
C4_PaddedRowsResolveToRoundedStride ==
  ( /\ pc = "done"
    /\ storage_width = 10
    /\ Len(raw_observation_bytes) = 64
    /\ PaddedWithSpaces(raw_observation_bytes, 10, 16) )
  => /\ resolved_row_width = Some(16)
     /\ Len(rows) = 4

---------------------------------------------------------------------------
(* a region of at least one full row whose length is a whole number of     *)
(* neither candidate stride                                                *)
IncompleteTrailingRow ==
  /\ LayoutRan
  /\ pc = "done"
  /\ Len(raw_observation_bytes) >= RoundedWidth(storage_width)
  /\ Len(raw_observation_bytes) % storage_width # 0
  /\ Len(raw_observation_bytes) % RoundedWidth(storage_width) # 0

PartialRowIsFiller(width) ==
  OnlyFiller(LastBytes(raw_observation_bytes,
                       Len(raw_observation_bytes) % width))

---------------------------------------------------------------------------
(* C6: the title of every returned Dataset is a non-empty string, whatever *)
(* the buffer and the hint: neither the first token after a MEMBER  NAME   *)
(* marker, nor the hint's file stem, nor the default is empty.             *)
C6_TitleNeverEmpty == Returned => dataset_title # << >>

---------------------------------------------------------------------------

(* the 140 bytes of the descriptor record of original index idx *)
RecordBytes(idx) ==
  SubSeq(name_string_block, idx * 140 + 1, (idx + 1) * 140)

(* a field of whitespace and NUL bytes only *)
FieldBlank(field) ==
  \A k \in 1..Len(field) : field[k] \in { 0, 9, 10, 11, 12, 13, 32 }

VarName(n) ==
  <<86, 65, 82>> \o (IF n < 10 THEN << 48 + n >>
                     ELSE << 48 + (n \div 10), 48 + (n % 10) >>)

(* C7: every variable of a returned Dataset is normalized: a non-empty     *)
(* name (VAR<n> when the record's name field is blank), a non-empty label  *)
(* (the name when the label field is blank), Numeric iff the record's      *)
(* var_type is 1, a length of max(declared, 8) for Numeric and             *)
(* max(declared, 1) for Character; so the storage width is positive.       *)
C7_VariablesNormalized ==
  Returned =>
    /\ \A k \in 1..Len(variables) :
         LET b == RecordBytes(ordered_records[k].idx)
             v == variables[k]
             declared == b[5] * 256 + b[6]
             numeric == b[1] = 0 /\ b[2] = 1
         IN /\ v.name # << >>
            /\ FieldBlank(SubSeq(b, 9, 16)) => v.name = VarName(k)
            /\ v.label # << >>
            /\ FieldBlank(SubSeq(b, 17, 56)) => v.label = v.name
            /\ (v.var_type = Numeric) <=> numeric
            /\ v.var_type \in { Numeric, Character }
            /\ v.length = IF numeric
                          THEN (IF declared > 8 THEN declared ELSE 8)
                          ELSE (IF declared > 1 THEN declared ELSE 1)
    /\ storage_width > 0

(* a second variable with a blank name, numeric, declared shorter than 8 *)
C7_Witness ==
  /\ Returned
  /\ Len(variables) >= 2
  /\ FieldBlank(SubSeq(RecordBytes(ordered_records[2].idx), 9, 16))
  /\ variables[2].name = <<86, 65, 82, 50>>
  /\ variables[2].var_type = Numeric
  /\ ordered_records[2].rec.length < 8
  /\ variables[2].length = 8

---------------------------------------------------------------------------
(* the cells (row, variable) of the numeric columns of the result *)
NumericCells ==
  { << r, i >> \in (1..Len(rows)) \X (1..Len(variables)) :
      variables[i].var_type = Numeric }

ZeroBytes(cell, from, to) == \A k \in from..to : cell[k] = 0

(* C8: a numeric cell is classified on its first 8 bytes, in this order:   *)
(* all eight zero is "0"; else a first byte 0x2E is missing, whatever the  *)
(* other seven; else bytes 1-7 all zero is signed zero ("-0" when bit 7 of *)
(* byte 0 is set, "0" otherwise); only the rest is computed from the       *)
(* fraction and the exponent.                                              *)
C8_NumericClassification ==
  Returned =>
    \A c \in NumericCells :
      LET cell == CellBytes(c[1], c[2])
          value == rows[c[1]].values[c[2]]
      IN IF ZeroBytes(cell, 1, 8) THEN value = <<48>>
         ELSE IF cell[1] = 46 THEN value = << >>
         ELSE IF ZeroBytes(cell, 2, 8)
              THEN value = (IF cell[1] >= 128 THEN <<45, 48>> ELSE <<48>>)
         ELSE /\ value = << -1, IF cell[1] >= 128 THEN 1 ELSE 0,
                            (cell[1] % 128) - 64 >> \o SubSeq(cell, 2, 8)

(* a 9-byte cell 2E 00 .. 00 with a non-zero ninth byte: missing, not zero *)
C8_Witness ==
  /\ Returned
  /\ \E c \in NumericCells :
       /\ Len(CellBytes(c[1], c[2])) > 8
       /\ CellBytes(c[1], c[2])[1] = 46
       /\ ZeroBytes(CellBytes(c[1], c[2]), 2, 8)
       /\ CellBytes(c[1], c[2])[9] # 0
       /\ rows[c[1]].values[c[2]] = << >>

---------------------------------------------------------------------------
(* where a marker occurs in the buffer *)
Occurs(p, i) ==
  i + Len(p) <= Len(data) /\ SubSeq(data, i + 1, i + Len(p)) = p
Present(p) == \E i \in 0..Len(data) : Occurs(p, i)
FirstOccurrence(p) ==
  CHOOSE i \in 0..Len(data) :
    Occurs(p, i) /\ \A j \in 0..(i - 1) : ~Occurs(p, j)
NextRecordBoundary(x) == CHOOSE m \in x..(x + 79) : m % 80 = 0

HeaderLocatorRan == pc \notin { "start", "locate" } /\ Len(data) >= 80

(* C9: for a buffer of at least 80 bytes parse fails with                  *)
(* HeaderNotFound(Namestr) when the NAMESTR marker is absent, with         *)
(* HeaderNotFound(Obs) when only the OBS marker is; otherwise the          *)
(* descriptor block is [s, e), s the smallest multiple of 80 not below the *)
(* end of the first NAMESTR marker and e the start of the first OBS        *)
(* marker, and parse fails with InvalidHeaderRange exactly when e <= s.    *)
C9_HeaderLocation ==
  HeaderLocatorRan =>
    IF ~Present(namestr_header) THEN outcome = HeaderNotFoundNamestr
    ELSE IF ~Present(obs_header) THEN outcome = HeaderNotFoundObs
    ELSE LET s == NextRecordBoundary(FirstOccurrence(namestr_header)
                                       + Len(namestr_header))
             e == FirstOccurrence(obs_header)
         IN /\ name_str_block_start = s
            /\ name_str_block_end = e
            /\ (outcome = InvalidHeaderRange) <=> (e <= s)

(* a NAMESTR marker that ends on a record boundary, its block accepted *)
C9_Witness ==
  /\ HeaderLocatorRan
  /\ Present(namestr_header)
  /\ Present(obs_header)
  /\ FirstOccurrence(namestr_header) > 0
  /\ (FirstOccurrence(namestr_header) + Len(namestr_header)) % 80 = 0
  /\ name_str_block_end > name_str_block_start
  /\ pc = "descriptors"

---------------------------------------------------------------------------
(* the smallest multiple of 8 not below w *)
NextMultipleOf8(w) == CHOOSE m \in w..(w + 7) : m % 8 = 0

(* C10: a resolved stride is storage_width or storage_width rounded up to  *)
(* a multiple of 8, the observation range left is a whole number of        *)
(* strides, and what was cut off is a tail shorter than one stride of      *)
(* 0x00/0x20 bytes; a raw length that is a multiple of storage_width       *)
(* resolves to storage_width with nothing cut; and UnresolvableRowWidth is *)
(* returned exactly when, for both candidates, the remainder is non-zero   *)
(* and the tail of that length holds another byte.                         *)
C10_LayoutPostcondition ==
  LayoutRan =>
    LET raw == raw_observation_bytes
        w == storage_width
        cut == Len(raw) - observation_len
    IN /\ resolved_row_width # None =>
            /\ resolved_row_width[1] \in { w, NextMultipleOf8(w) }
            /\ observation_len % resolved_row_width[1] = 0
            /\ cut >= 0 /\ cut < resolved_row_width[1]
            /\ OnlyFiller(LastBytes(raw, cut))
       /\ Len(raw) % w = 0 =>
            resolved_row_width = Some(w) /\ observation_len = Len(raw)
       /\ (outcome = UnresolvableRowWidth) <=>
            \A c \in { w, NextMultipleOf8(w) } :
              Len(raw) % c # 0 /\ ~OnlyFiller(LastBytes(raw, Len(raw) % c))

(* trailing filler cut off under the rounded stride *)
C10_Witness ==
  /\ LayoutRan
  /\ storage_width = 10
  /\ resolved_row_width = Some(16)
  /\ observation_len > 0
  /\ observation_len < Len(raw_observation_bytes)

---------------------------------------------------------------------------
(* the descriptor parser ran on a block of at least one record: the block  *)
(* bounds are set by the header locator alone                              *)
DescriptorParserRan ==
  /\ pc \in { "metadata", "order", "layout", "rows", "done" }
  /\ name_str_block_end - name_str_block_start >= 140

(* the whole 140-byte records of the descriptor block *)
BlockRecordCount == (name_str_block_end - name_str_block_start) \div 140

(* C11: no descriptor record is ever skipped: once the descriptor block    *)
(* has at least 140 bytes, each of its floor(block_length / 140) records   *)
(* is parsed, in block order, and becomes a variable, so a returned        *)
(* Dataset has exactly floor(block_length / 140) variables; the failure    *)
(* DescriptorParseFailure is never returned.                               *)
C11_NoDescriptorSkipped ==
  /\ outcome # DescriptorParseFailure
  /\ DescriptorParserRan =>
       /\ Len(name_records) = BlockRecordCount
       /\ \A k \in 1..BlockRecordCount :
            LET b == RecordBytes(k - 1)
            IN /\ name_records[k].var_type = b[1] * 256 + b[2]
               /\ name_records[k].length = b[5] * 256 + b[6]
               /\ name_records[k].position = b[7] * 256 + b[8]
       /\ pc \in { "layout", "rows", "done" } =>
            Len(variables) = BlockRecordCount

(* a returned dataset whose block is not a whole number of records and     *)
(* holds a record of unknown type and blank name                           *)
C11_Witness ==
  /\ Returned
  /\ DescriptorParserRan
  /\ (name_str_block_end - name_str_block_start) % 140 # 0
  /\ Len(variables) = BlockRecordCount
  /\ \E k \in 1..Len(name_records) :
       /\ name_records[k].var_type \notin { 1, 2 }
       /\ name_records[k].name = << >>

---------------------------------------------------------------------------
(* C12: every returned Dataset has at least one row, and its row count is  *)
(* the truncated observation length divided by the resolved stride,        *)
(* exactly: the cell decoder drops no row of a resolved layout.  An        *)
(* observation region that is empty, or holds only filler bytes and fewer  *)
(* of them than one stride, is rejected with ObservationTooSmall, not      *)
(* decoded to a dataset of zero rows.                                      *)
C12_RowCount ==
  /\ Returned =>
       /\ Len(rows) >= 1
       /\ Len(rows) = observation_len \div resolved_row_width[1]
       /\ Len(rows) * resolved_row_width[1] = observation_len
  /\ ( /\ LayoutRan
       /\ pc = "done"
       /\ Len(raw_observation_bytes) < storage_width
       /\ \A k \in 1..Len(raw_observation_bytes) :
            raw_observation_bytes[k] \in { 0, 32 } )
     => outcome = ObservationTooSmall /\ rows = << >>

(* a region of filler only, shorter than one row, rejected *)
C12_Witness ==
  /\ LayoutRan
  /\ pc = "done"
  /\ Len(raw_observation_bytes) > 0
  /\ Len(raw_observation_bytes) < storage_width
  /\ \A k \in 1..Len(raw_observation_bytes) :
       raw_observation_bytes[k] \in { 0, 32 }
  /\ resolved_row_width = Some(storage_width)
  /\ observation_len = 0
  /\ outcome = ObservationTooSmall

=============================================================================
